---- MODULE Spec2Model ----
(***************************************************************************)
(* Model of package phpfpm (src/phpfpm/phpfpm.go): the PoolManager, its    *)
(* concurrent Update fan-out, Pool.Update (one FastCGI status scrape) and  *)
(* the decoding of the status payload into the pool.                       *)
(*                                                                         *)
(* Strings that the code parses (pool addresses) are sequences of          *)
(* one-character strings, so that url.Parse, Hostname and Port are         *)
(* computed and not assumed.  JSON payloads are syntax trees: an object is *)
(* a sequence of <<key, value>> members in document order.                 *)
(***************************************************************************)
EXTENDS Integers, Sequences, FiniteSets, TLC

\* ------------------------------------------------------------------ bounds
MaxPools == 2
MaxUpdates == 2
\* longest process list, and calls of CalculateProcessScoreboard on it
MaxProcs == 3
MaxCalls == 2
\* longest byte string given to the timestamp codec, and the latest and
\* earliest second of a timestamp given to it
MaxBytes == 3
MaxSec == 12

\* --------------------------------------------------------------- addresses
\* "tcp://h:9", "unix:///s", "://h" and "http://h:9" written character by
\* character.
TcpAddress == <<"t","c","p",":","/","/","h",":","9">>
UnixAddress == <<"u","n","i","x",":","/","/","/","s">>
BadAddress == <<":","/","/","h">>
HttpAddress == <<"h","t","t","p",":","/","/","h",":","9">>
Addresses == {TcpAddress, UnixAddress, BadAddress, HttpAddress}

Letters == {"a","b","c","d","e","f","g","h","i","j","k","l","m","n","o","p",
            "q","r","s","t","u","v","w","x","y","z"}
Digits == {"0","1","2","3","4","5","6","7","8","9"}

\* index of the first occurrence of c in s at or after position i, 0 if none
RECURSIVE IndexFrom(_, _, _)
IndexFrom(s, c, i) ==
  IF i > Len(s) THEN 0
  ELSE IF s[i] = c THEN i
  ELSE IndexFrom(s, c, i + 1)

\* index of the last occurrence of c in s at or before position i, 0 if none
RECURSIVE LastIndexFrom(_, _, _)
LastIndexFrom(s, c, i) ==
  IF i < 1 THEN 0
  ELSE IF s[i] = c THEN i
  ELSE LastIndexFrom(s, c, i - 1)

HasPrefix(s, pre) == Len(s) >= Len(pre) /\ SubSeq(s, 1, Len(pre)) = pre

\* net/url getScheme: [err, scheme, rest]
RECURSIVE getSchemeFrom(_, _)
getSchemeFrom(rawURL, i) ==
  IF i > Len(rawURL) THEN [err |-> FALSE, scheme |-> <<>>, rest |-> rawURL]
  ELSE IF rawURL[i] \in Letters THEN getSchemeFrom(rawURL, i + 1)
  ELSE IF rawURL[i] \in Digits \cup {"+", "-", "."} THEN
         IF i = 1 THEN [err |-> FALSE, scheme |-> <<>>, rest |-> rawURL]
         ELSE getSchemeFrom(rawURL, i + 1)
  ELSE IF rawURL[i] = ":" THEN
         IF i = 1 THEN [err |-> TRUE, scheme |-> <<>>, rest |-> <<>>]
         ELSE [err |-> FALSE, scheme |-> SubSeq(rawURL, 1, i - 1),
               rest |-> SubSeq(rawURL, i + 1, Len(rawURL))]
  ELSE [err |-> FALSE, scheme |-> <<>>, rest |-> rawURL]

getScheme(rawURL) == getSchemeFrom(rawURL, 1)

\* net/url validOptionalPort: "" or ":" followed by digits only
validOptionalPort(port) ==
  \/ port = <<>>
  \/ /\ port[1] = ":"
     /\ \A k \in 2..Len(port) : port[k] \in Digits

\* net/url Parse, for addresses without query, userinfo, escapes or
\* brackets: [err, Scheme, Host, Path, Opaque]
urlParse(rawURL) ==
  LET gs == getScheme(rawURL)
      rest == gs.rest
      failed == [err |-> TRUE, Scheme |-> <<>>, Host |-> <<>>,
                 Path |-> <<>>, Opaque |-> <<>>]
  IN IF gs.err THEN failed
     ELSE IF ~HasPrefix(rest, <<"/">>) THEN
       IF gs.scheme # <<>> THEN
         [err |-> FALSE, Scheme |-> gs.scheme, Host |-> <<>>,
          Path |-> <<>>, Opaque |-> rest]
       ELSE LET colon == IndexFrom(rest, ":", 1)
                slash == IndexFrom(rest, "/", 1)
            IN IF colon > 0 /\ (slash = 0 \/ colon < slash) THEN failed
               ELSE [err |-> FALSE, Scheme |-> <<>>, Host |-> <<>>,
                     Path |-> rest, Opaque |-> <<>>]
     ELSE IF HasPrefix(rest, <<"/","/">>) THEN
       LET after == SubSeq(rest, 3, Len(rest))
           slash == IndexFrom(after, "/", 1)
           authority == IF slash = 0 THEN after ELSE SubSeq(after, 1, slash - 1)
           path == IF slash = 0 THEN <<>> ELSE SubSeq(after, slash, Len(after))
           colon == LastIndexFrom(authority, ":", Len(authority))
       IN IF colon > 0 /\ ~validOptionalPort(SubSeq(authority, colon, Len(authority)))
          THEN failed
          ELSE [err |-> FALSE, Scheme |-> gs.scheme, Host |-> authority,
                Path |-> path, Opaque |-> <<>>]
     ELSE [err |-> FALSE, Scheme |-> gs.scheme, Host |-> <<>>,
           Path |-> rest, Opaque |-> <<>>]

\* URL.Hostname and URL.Port (net/url splitHostPort)
Hostname(uri) ==
  LET colon == LastIndexFrom(uri.Host, ":", Len(uri.Host))
  IN IF colon > 0 /\ validOptionalPort(SubSeq(uri.Host, colon, Len(uri.Host)))
     THEN SubSeq(uri.Host, 1, colon - 1)
     ELSE uri.Host

Port(uri) ==
  LET colon == LastIndexFrom(uri.Host, ":", Len(uri.Host))
  IN IF colon > 0 /\ validOptionalPort(SubSeq(uri.Host, colon, Len(uri.Host)))
     THEN SubSeq(uri.Host, colon + 1, Len(uri.Host))
     ELSE <<>>

\* the arguments Pool.Update hands to fcgiclient.DialTimeout
DialNetwork(uri) == uri.Scheme
DialAddress(uri) == Hostname(uri) \o <<":">> \o Port(uri)

\* networks net.Dial knows with a plain address
KnownNetworks ==
  { <<"t","c","p">>, <<"t","c","p","4">>, <<"t","c","p","6">>,
    <<"u","d","p">>, <<"u","d","p","4">>, <<"u","d","p","6">>,
    <<"u","n","i","x">>, <<"u","n","i","x","g","r","a","m">>,
    <<"u","n","i","x","p","a","c","k","e","t">> }

\* endpoints at which a PHP-FPM status page listens: TCP h:9 and the
\* socket file /s
Listening ==
  { << <<"t","c","p">>, <<"h",":","9">> >>,
    << <<"u","n","i","x">>, <<"/","s">> >> }

\* ---------------------------------------------------------------- payloads
Num(n) == [t |-> "num", v |-> n]
Str(s) == [t |-> "str", v |-> s]
Arr(a) == [t |-> "arr", v |-> a]
Null == [t |-> "null", v |-> 0]
Object(members) == [kind |-> "object", members |-> members]

\* {"pool":"www","process manager":"dynamic","start time":1,
\*  "accepted conn":5,"unknown":1,"Address":"unix:///s","ScrapeFailures":7,
\*  "ScrapeError":"x","processes":[{"pid":1,"state":"Idle","requests":3},
\*  {"pid":2,"state":"Running","requests":7}]}
PFull ==
  Object(<< <<"pool", Str("www")>>, <<"process manager", Str("dynamic")>>,
            <<"start time", Num(1)>>, <<"accepted conn", Num(5)>>,
            <<"unknown", Num(1)>>,
            <<"Address", Str(<<"u","n","i","x",":","/","/","/","s">>)>>,
            <<"ScrapeFailures", Num(7)>>, <<"ScrapeError", Str("x")>>,
            <<"processes",
              Arr(<< << <<"pid", Num(1)>>, <<"state", Str("Idle")>>,
                        <<"requests", Num(3)>> >>,
                     << <<"pid", Num(2)>>, <<"state", Str("Running")>>,
                        <<"requests", Num(7)>> >> >>)>> >>)

\* {"pool":"api","processes":[{"pid":3}]}
PPartial ==
  Object(<< <<"pool", Str("api")>>,
            <<"processes", Arr(<< << <<"pid", Num(3)>> >> >>)>> >>)

\* {"pool":"bad","accepted conn":"x","start time":2}
PMismatch ==
  Object(<< <<"pool", Str("bad")>>, <<"accepted conn", Str("x")>>,
            <<"start time", Num(2)>> >>)

\* {"pool":"bad","start time":"x","accepted conn":9}
PBadTime ==
  Object(<< <<"pool", Str("bad")>>, <<"start time", Str("x")>>,
            <<"accepted conn", Num(9)>> >>)

\* {"processes":[]}
PNoProcesses == Object(<< <<"processes", Arr(<<>>)>> >>)

\* the four bytes null, and a body that is not JSON at all
PNull == [kind |-> "null", members |-> <<>>]
PMalformed == [kind |-> "malformed", members |-> <<>>]

Payloads == {PFull, PPartial, PMismatch, PBadTime, PNoProcesses, PNull,
             PMalformed}

\* ------------------------------------------------------------------- types
\* zero value of timestamp is time.Time{}, which is not the Unix epoch
ZeroTime == [isZero |-> TRUE, sec |-> 0]
UnixTime(n) == [isZero |-> FALSE, sec |-> n]

ZeroProcess == [PID |-> 0, State |-> "", Requests |-> 0]

\* Pool{Address: uri}.  procSpare is the part of the Processes slice's
\* backing array between its length and its capacity.
NewPool(uri) ==
  [Address |-> uri, ScrapeError |-> "nil", ScrapeFailures |-> 0,
   Name |-> "", ProcessManager |-> "", StartTime |-> ZeroTime,
   AcceptedConnections |-> 0, Processes |-> <<>>, procSpare |-> <<>>]

\* ----------------------------------------------------------------- decoder
\* encoding/json into an int64 or string field: a value of another JSON
\* type is skipped and remembered as an UnmarshalTypeError, null has no
\* effect
DecodeInt(old, val) ==
  IF val.t = "num" THEN [v |-> val.v, err |-> FALSE]
  ELSE IF val.t = "null" THEN [v |-> old, err |-> FALSE]
  ELSE [v |-> old, err |-> TRUE]

DecodeString(old, val) ==
  IF val.t = "str" THEN [v |-> val.v, err |-> FALSE]
  ELSE IF val.t = "null" THEN [v |-> old, err |-> FALSE]
  ELSE [v |-> old, err |-> TRUE]

\* timestamp.UnmarshalJSON: strconv.Atoi of the raw bytes of the value
UnmarshalJSON(old, val) ==
  IF val.t = "num" THEN [v |-> UnixTime(val.v), err |-> FALSE]
  ELSE [v |-> old, err |-> TRUE]

\* one JSON object decoded into an existing PoolProcess: [v, err]
RECURSIVE DecodeProcess(_, _, _)
DecodeProcess(proc, members, i) ==
  IF i > Len(members) THEN [v |-> proc, err |-> FALSE]
  ELSE
    LET key == members[i][1]
        val == members[i][2]
        r == IF key = "pid" THEN DecodeInt(proc.PID, val)
             ELSE IF key = "state" THEN DecodeString(proc.State, val)
             ELSE IF key = "requests" THEN DecodeInt(proc.Requests, val)
             ELSE [v |-> 0, err |-> FALSE]
        next == IF key = "pid" THEN [proc EXCEPT !.PID = r.v]
                ELSE IF key = "state" THEN [proc EXCEPT !.State = r.v]
                ELSE IF key = "requests" THEN [proc EXCEPT !.Requests = r.v]
                ELSE proc
        tail == DecodeProcess(next, members, i + 1)
    IN [v |-> tail.v, err |-> r.err \/ tail.err]

\* a JSON array decoded into the existing Processes slice: element i is
\* decoded into the slot the backing array already holds at i, the length
\* is set to the number of elements, and an empty array installs a fresh
\* empty slice
DecodeProcesses(p, arr) ==
  LET backing == p.Processes \o p.procSpare
      k == Len(arr)
      slot(i) == IF i <= Len(backing) THEN backing[i] ELSE ZeroProcess
      dec == [i \in 1..k |-> DecodeProcess(slot(i), arr[i], 1)]
  IN [v |-> [p EXCEPT !.Processes = [i \in 1..k |-> dec[i].v],
                      !.procSpare = IF k = 0 \/ k >= Len(backing) THEN <<>>
                                    ELSE SubSeq(backing, k + 1, Len(backing))],
      err |-> \E i \in 1..k : dec[i].err]

\* a Pool whose Address, ScrapeError and ScrapeFailures are decoded under
\* their field names
DecodeMetaExported(p, key, val) ==
  IF key = "Address" /\ val.t = "str" THEN [p EXCEPT !.Address = val.v]
  ELSE IF key = "ScrapeFailures" /\ val.t = "num"
    THEN [p EXCEPT !.ScrapeFailures = val.v]
  ELSE IF key = "ScrapeError" /\ val.t = "str"
    THEN [p EXCEPT !.ScrapeError = val.v]
  ELSE p

\* a key that is the name of no JSON field of Pool: Address, ScrapeError
\* and ScrapeFailures are tagged json:"-", and unknown keys are skipped
DecodeMeta(p, key, val) == p

\* the members of a JSON object decoded into the existing Pool, in document
\* order: [v, err] with err one of "nil", "type" (an UnmarshalTypeError was
\* saved and decoding went on), "abort" (UnmarshalJSON failed and decoding
\* stopped there)
RECURSIVE DecodePool(_, _, _)
DecodePool(p, members, i) ==
  IF i > Len(members) THEN [v |-> p, err |-> "nil"]
  ELSE
    LET key == members[i][1]
        val == members[i][2]
    IN IF key = "start time" THEN
         LET r == UnmarshalJSON(p.StartTime, val)
         IN IF r.err THEN [v |-> p, err |-> "abort"]
            ELSE DecodePool([p EXCEPT !.StartTime = r.v], members, i + 1)
       ELSE
         LET r == IF key = "pool" THEN
                    LET d == DecodeString(p.Name, val)
                    IN [v |-> [p EXCEPT !.Name = d.v], err |-> d.err]
                  ELSE IF key = "process manager" THEN
                    LET d == DecodeString(p.ProcessManager, val)
                    IN [v |-> [p EXCEPT !.ProcessManager = d.v], err |-> d.err]
                  ELSE IF key = "accepted conn" THEN
                    LET d == DecodeInt(p.AcceptedConnections, val)
                    IN [v |-> [p EXCEPT !.AcceptedConnections = d.v], err |-> d.err]
                  ELSE IF key = "processes" THEN
                    IF val.t = "arr" THEN DecodeProcesses(p, val.v)
                    ELSE IF val.t = "null" THEN
                      [v |-> [p EXCEPT !.Processes = <<>>, !.procSpare = <<>>],
                       err |-> FALSE]
                    ELSE [v |-> p, err |-> TRUE]
                  ELSE [v |-> DecodeMeta(p, key, val), err |-> FALSE]
             tail == DecodePool(r.v, members, i + 1)
         IN [v |-> tail.v,
             err |-> IF tail.err = "abort" THEN "abort"
                     ELSE IF r.err THEN "type"
                     ELSE tail.err]

\* json.Unmarshal(content, &p): a body that is not valid JSON is rejected
\* before anything is stored; null only resets the local pointer p
Unmarshal(p, content) ==
  IF content.kind = "malformed" THEN [v |-> p, err |-> "syntax"]
  ELSE IF content.kind = "null" THEN [v |-> p, err |-> "nil"]
  ELSE DecodePool(p, content.members, 1)

\* ------------------------------------------------------------------- state
VARIABLES
  Pools,          \* pm.Pools: the sequence of Pool values
  pmPc,           \* the caller: "idle", "launch", "wait", "returned"
  idx,            \* loop variable of PoolManager.Update
  wg,             \* counter of the sync.WaitGroup
  ret,            \* value returned by the last PoolManager.Update
  updates,        \* number of PoolManager.Update calls started
  unitPc,         \* per goroutine: "none", "begin", "dial", "get", "read", "done"
  unitP,          \* per goroutine: the index of the entry its p points to
  unitUri,        \* per goroutine: its local uri, the result of url.Parse
  peerSilent,     \* per goroutine: the connected peer never sends anything
  conn,           \* per goroutine: its connection, "none", "open", "closed"
  dialed,         \* per goroutine: arguments of its DialTimeout call
  pre,            \* pm.Pools as it was when the running Update was called
  outcome,        \* per goroutine: how far the attempt got and what it read
  failedAttempts, \* per entry: attempts of Pool.Update that returned an error
  attempts,       \* per entry: calls of Pool.Update in the running Update
  added,          \* per call of Add: its argument and the Pool it returned
  sb,             \* a call of CalculateProcessScoreboard
  ts              \* a timestamp value going through its JSON codec

unitVars == <<unitPc, unitP, unitUri, peerSilent, conn, dialed>>
ghostVars == <<pre, outcome, failedAttempts, attempts>>
pureVars == <<sb, ts>>
vars == <<Pools, pmPc, idx, wg, ret, updates, unitVars, ghostVars, added,
          pureVars>>

Units == 1..MaxPools
NoURL == [err |-> FALSE, Scheme |-> <<>>, Host |-> <<>>, Path |-> <<>>,
          Opaque |-> <<>>]
NoDial == [network |-> <<>>, address |-> <<>>]
NoContent == [kind |-> "none", members |-> <<>>]
NoOutcome == [stage |-> "none", content |-> NoContent, err |-> "nil"]
Running == {"begin", "dial", "get", "read"}
\* no call of CalculateProcessScoreboard yet
NoScoreboard ==
  [pc |-> "none", p |-> NewPool(<<>>), idx |-> 1, active |-> 0, idle |-> 0,
   total |-> 0, log |-> <<>>, calls |-> 0, results |-> <<>>]
\* no timestamp going through the codec
NoCodec ==
  [pc |-> "none", dir |-> "none", b0 |-> <<>>, b |-> <<>>,
   t0 |-> [sec |-> 0, nsec |-> 0, loc |-> "UTC"],
   t |-> [sec |-> 0, nsec |-> 0, loc |-> "UTC"]]

\* a PoolManager without pools, nothing running
InitManager ==
  /\ pmPc = "idle"
  /\ idx = 1
  /\ wg = 0
  /\ ret = "none"
  /\ updates = 0
  /\ unitPc = [u \in Units |-> "none"]
  /\ unitP = [u \in Units |-> u]
  /\ unitUri = [u \in Units |-> NoURL]
  /\ peerSilent = [u \in Units |-> FALSE]
  /\ conn = [u \in Units |-> "none"]
  /\ dialed = [u \in Units |-> NoDial]
  /\ pre = <<>>
  /\ outcome = [u \in Units |-> NoOutcome]
  /\ failedAttempts = [u \in Units |-> 0]
  /\ attempts = [u \in Units |-> 0]

Init ==
  /\ Pools = <<>>
  /\ InitManager
  /\ added = <<>>
  /\ sb = NoScoreboard
  /\ ts = NoCodec

\* ------------------------------------------------------------- PoolManager
\* an Add that puts the new entry in front
prependPool(pools, p) == <<p>> \o pools

\* pm.Pools = append(pm.Pools, p)
appendPool(pools, p) == Append(pools, p)

\* PoolManager.Add
Add(uri) ==
  /\ pmPc \in {"idle", "returned"}
  /\ Len(Pools) < MaxPools
  /\ LET p == NewPool(uri)
     IN /\ Pools' = appendPool(Pools, p)
        /\ added' = Append(added, [uri |-> uri, p |-> p])
  /\ pmPc' = "idle"
  /\ UNCHANGED <<idx, wg, ret, updates, unitVars, ghostVars, pureVars>>

\* PoolManager.Update is called: wg := &sync.WaitGroup{} and loop entry
UpdateCall ==
  /\ pmPc \in {"idle", "returned"}
  /\ updates < MaxUpdates
  /\ updates' = updates + 1
  /\ wg' = 0
  /\ idx' = 1
  /\ pmPc' = IF Len(Pools) = 0 THEN "wait" ELSE "launch"
  /\ pre' = Pools
  /\ unitPc' = [u \in Units |-> "none"]
  /\ outcome' = [u \in Units |-> NoOutcome]
  /\ dialed' = [u \in Units |-> NoDial]
  /\ conn' = [u \in Units |-> "none"]
  /\ attempts' = [u \in Units |-> 0]
  /\ UNCHANGED <<Pools, ret, unitP, unitUri, peerSilent, failedAttempts,
                 added, pureVars>>

\* every goroutine handed the first entry
LaunchFirst(i) == 1

\* every goroutine reading the loop variable after the loop has ended
LaunchLoopVar(i) == Len(Pools)

\* the entry the goroutine of iteration i is handed: &pm.Pools[idx]
LaunchTarget(i) == i

\* a loop that stops one entry short
LastIterationEarly(i, n) == i + 1 >= n

\* for idx := range pm.Pools: iteration i is the last one of n entries
LastIteration(i, n) == i = n

\* one iteration of the loop: wg.Add(1); go func(p *Pool){...}(&pm.Pools[idx])
Launch ==
  /\ pmPc = "launch"
  /\ wg' = wg + 1
  /\ unitPc' = [unitPc EXCEPT ![idx] = "begin"]
  /\ unitP' = [unitP EXCEPT ![idx] = LaunchTarget(idx)]
  /\ unitUri' = [unitUri EXCEPT ![idx] = NoURL]
  /\ peerSilent' = [peerSilent EXCEPT ![idx] = FALSE]
  /\ idx' = idx + 1
  /\ pmPc' = IF LastIteration(idx, Len(Pools)) THEN "wait" ELSE "launch"
  /\ UNCHANGED <<Pools, ret, updates, conn, dialed, ghostVars, added,
                 pureVars>>

\* a caller that does not wait
WaitNoBarrier(w) == TRUE

\* wg.Wait() lets the caller through when the counter is zero
WaitDone(w) == w = 0

\* wg.Wait(); return nil
Wait ==
  /\ pmPc = "wait"
  /\ WaitDone(wg)
  /\ ret' = "nil"
  /\ pmPc' = "returned"
  /\ UNCHANGED <<Pools, idx, wg, updates, unitVars, ghostVars, added,
                 pureVars>>

\* -------------------------------------------------------------------- Pool
\* an error path that records the error and forgets to count it
errorNoCount(p, err) == [p EXCEPT !.ScrapeError = err]

\* Pool.error
error(p, err) ==
  [p EXCEPT !.ScrapeError = err, !.ScrapeFailures = @ + 1]

\* a scrape that leaves the last error in place
ClearErrorMissing(p) == p

\* first statement of Pool.Update
ClearError(p) == [p EXCEPT !.ScrapeError = "nil"]

\* return p.error(err): the pool as left and the value returned
Fail(p, err) == [p |-> error(p, err), err |-> err]

\* the end of Pool.Update on content that was read: json.Unmarshal, then
\* return p.error(err) or return nil
Store(p, content) ==
  LET r == Unmarshal(p, content)
  IN IF r.err # "nil" THEN Fail(r.v, r.err) ELSE [p |-> r.v, err |-> "nil"]

\* Pool.Update as one function of the pool and of what the attempt met:
\* the stage at which it failed, or the content it read
PoolUpdate(p, stage, content) ==
  IF stage = "none" THEN [p |-> p, err |-> "nil"]
  ELSE IF stage = "body" THEN Store(ClearError(p), content)
  ELSE Fail(ClearError(p), stage)

\* a goroutine that works on a copy and appends it to the collection
writeAppended(pools, i, p) == Append(pools, p)

\* a write through p *Pool, which points at entry i of pm.Pools
writeThrough(pools, i, p) == [pools EXCEPT ![i] = p]

\* a connection that is closed at the end of the successful path only
closeOnSuccess(c, err) == IF c = "open" /\ err = "nil" THEN "closed" ELSE c

\* defer fcgi.Close(), registered once the dial has succeeded, runs on
\* every return
deferredClose(c, err) == IF c = "open" THEN "closed" ELSE c

\* Pool.Update returns r.err in goroutine u with the entry left as r.p; the
\* deferred Close and the deferred wg.Done() run
Return(u, r, stage, content) ==
  /\ Pools' = writeThrough(Pools, unitP[u], r.p)
  /\ unitPc' = [unitPc EXCEPT ![u] = "done"]
  /\ conn' = [conn EXCEPT ![u] = deferredClose(@, r.err)]
  /\ wg' = wg - 1
  /\ outcome' = [outcome EXCEPT ![u] =
                   [stage |-> stage, content |-> content, err |-> r.err]]
  /\ failedAttempts' =
       [failedAttempts EXCEPT ![unitP[u]] = IF r.err # "nil" THEN @ + 1 ELSE @]

\* p.ScrapeError = nil; url.Parse(p.Address)
UnitBegin(u) ==
  /\ unitPc[u] = "begin"
  /\ attempts' = [attempts EXCEPT ![unitP[u]] = @ + 1]
  /\ LET p == ClearError(Pools[unitP[u]])
     IN /\ unitUri' = [unitUri EXCEPT ![u] = urlParse(p.Address)]
        /\ \/ /\ unitUri'[u].err
              /\ Return(u, Fail(p, "parse"), "parse", NoContent)
              /\ UNCHANGED <<pmPc, idx, ret, updates, unitP, peerSilent, dialed,
                             pre, added, pureVars>>
           \/ /\ ~unitUri'[u].err
              /\ Pools' = writeThrough(Pools, unitP[u], p)
              /\ unitPc' = [unitPc EXCEPT ![u] = "dial"]
              /\ UNCHANGED <<pmPc, idx, wg, ret, updates, unitP, peerSilent,
                             conn, dialed, pre, outcome, failedAttempts,
                             added, pureVars>>

\* fcgiclient.DialTimeout(uri.Scheme, uri.Hostname()+":"+uri.Port(), 3s):
\* an unknown network or an endpoint nobody listens at fails; a listening
\* endpoint accepts, refuses or lets the three seconds pass
UnitDial(u) ==
  /\ unitPc[u] = "dial"
  /\ LET p == Pools[unitP[u]]
         call == [network |-> DialNetwork(unitUri[u]),
                  address |-> DialAddress(unitUri[u])]
     IN /\ dialed' = [dialed EXCEPT ![u] = call]
        /\ \/ /\ Return(u, Fail(p, "dial"), "dial", NoContent)
              /\ UNCHANGED <<pmPc, idx, ret, updates, unitP, unitUri,
                             peerSilent, pre, attempts, added, pureVars>>
           \/ /\ call.network \in KnownNetworks
              /\ <<call.network, call.address>> \in Listening
              /\ \E silent \in BOOLEAN :
                   peerSilent' = [peerSilent EXCEPT ![u] = silent]
              /\ conn' = [conn EXCEPT ![u] = "open"]
              /\ unitPc' = [unitPc EXCEPT ![u] = "get"]
              /\ UNCHANGED <<Pools, pmPc, idx, wg, ret, updates, unitP,
                             unitUri, ghostVars, added, pureVars>>

\* fcgi.Get(env): writes the request and blocks reading the response; no
\* deadline is set on the connection, so it returns only when the peer
\* sends something or the connection breaks
UnitGet(u) ==
  /\ unitPc[u] = "get"
  /\ ~peerSilent[u]
  /\ \/ /\ Return(u, Fail(Pools[unitP[u]], "get"), "get", NoContent)
        /\ UNCHANGED <<pmPc, idx, ret, updates, unitP, unitUri, peerSilent,
                       dialed, pre, attempts, added, pureVars>>
     \/ /\ unitPc' = [unitPc EXCEPT ![u] = "read"]
        /\ UNCHANGED <<Pools, pmPc, idx, wg, ret, updates, unitP, unitUri,
                       peerSilent, conn, dialed, ghostVars, added, pureVars>>

\* ioutil.ReadAll(resp.Body), json.Unmarshal(content, &p) and the return
UnitRead(u) ==
  /\ unitPc[u] = "read"
  /\ \/ Return(u, Fail(Pools[unitP[u]], "read"), "read", NoContent)
     \/ \E content \in Payloads :
          Return(u, Store(Pools[unitP[u]], content), "body", content)
  /\ UNCHANGED <<pmPc, idx, ret, updates, unitP, unitUri, peerSilent, dialed,
                 pre, attempts, added, pureVars>>

UnitStep(u) == UnitBegin(u) \/ UnitDial(u) \/ UnitGet(u) \/ UnitRead(u)

Next ==
  \/ \E uri \in Addresses : Add(uri)
  \/ UpdateCall
  \/ Launch
  \/ Wait
  \/ \E u \in Units : UnitBegin(u)
  \/ \E u \in Units : UnitDial(u)
  \/ \E u \in Units : UnitGet(u)
  \/ \E u \in Units : UnitRead(u)

Spec == Init /\ [][Next]_vars

\* goroutines that can run do run, and so does the caller inside Update;
\* whether Add or Update is called at all is up to the caller
FairSpec ==
  /\ Spec
  /\ \A u \in Units : WF_vars(UnitStep(u))
  /\ WF_vars(Launch)
  /\ WF_vars(Wait)

\* -------------------------------------------------------------- scoreboard
\* everything of the model that CalculateProcessScoreboard and the
\* timestamp codec do not touch
managerVars == <<pmPc, idx, wg, ret, updates, unitVars, ghostVars, added>>

PoolProcessRequestIdle == "Idle"
PoolProcessRequestActive == "Running"

\* values of the state field of a process in a status payload
ProcessStates == {"Idle", "Running", "Zombie", "idle"}

\* the PoolProcess values that decoding a processes array of n objects
\* with pid and state gives
ProcessLists ==
  UNION {[1..n -> {[PID |-> 1, State |-> s, Requests |-> 0] :
                     s \in ProcessStates}] : n \in 0..MaxProcs}

\* log.Errorf("Unknown process state '%v'", state): the logger receives one
\* more message
ErrorfOnce(logged, state) ==
  IF \E k \in 1..Len(logged) : logged[k] = state THEN logged
  ELSE Append(logged, state)

Errorf(logged, state) == Append(logged, state)

\* the switch on p.Processes[idx].State
classify(s, state) ==
  IF state = PoolProcessRequestActive THEN [s EXCEPT !.active = @ + 1]
  ELSE IF state = PoolProcessRequestIdle THEN [s EXCEPT !.idle = @ + 1]
  ELSE [s EXCEPT !.log = Errorf(@, state)]

\* the third value of the return statement
returnLen(active, idle, n) == n

returnTotal(active, idle, n) == active + idle

\* a pool manager holding one pool that was scraped, and a caller about to
\* compute its scoreboard
ScoreInit ==
  /\ InitManager
  /\ \E procs \in ProcessLists :
       Pools = <<[NewPool(TcpAddress) EXCEPT !.Name = "www",
                                             !.Processes = procs]>>
  /\ added = <<[uri |-> TcpAddress, p |-> NewPool(TcpAddress)]>>
  /\ sb = NoScoreboard
  /\ ts = NoCodec

\* CalculateProcessScoreboard(pm.Pools[1]): the Pool is passed by value
\* and the three counters start at 0
ScoreCall ==
  /\ sb.pc \in {"none", "done"}
  /\ sb.calls < MaxCalls
  /\ sb' = [sb EXCEPT !.pc = "loop", !.p = Pools[1], !.idx = 1,
                      !.active = 0, !.idle = 0, !.total = 0, !.log = <<>>,
                      !.calls = @ + 1]
  /\ UNCHANGED <<Pools, managerVars, ts>>

\* one iteration of the loop over p.Processes
ScoreIterate ==
  /\ sb.pc = "loop"
  /\ sb.idx <= Len(sb.p.Processes)
  /\ sb' = [classify(sb, sb.p.Processes[sb.idx].State) EXCEPT !.idx = @ + 1]
  /\ UNCHANGED <<Pools, managerVars, ts>>

\* return active, idle, active + idle
ScoreReturn ==
  /\ sb.pc = "loop"
  /\ sb.idx > Len(sb.p.Processes)
  /\ LET total == returnTotal(sb.active, sb.idle, Len(sb.p.Processes))
     IN sb' = [sb EXCEPT !.pc = "done", !.total = total,
                         !.results = Append(@, [active |-> sb.active,
                                                idle |-> sb.idle,
                                                total |-> total])]
  /\ UNCHANGED <<Pools, managerVars, ts>>

ScoreNext == ScoreCall \/ ScoreIterate \/ ScoreReturn

ScoreSpec == ScoreInit /\ [][ScoreNext]_vars

\* --------------------------------------------------------- timestamp codec
\* a time.Time by what Unix(), Nanosecond() and Location() return
Time(sec, nsec, loc) == [sec |-> sec, nsec |-> nsec, loc |-> loc]

\* time.Unix(sec, 0): that second, in the local time zone
timeUnix(sec) == Time(sec, 0, "Local")

\* t.Unix(): the seconds since the epoch, rounded down
Unix(t) == t.sec

DigitChars == <<"0","1","2","3","4","5","6","7","8","9">>
digitValue(c) == (CHOOSE d \in 1..10 : DigitChars[d] = c) - 1

\* decimal digits of n >= 0
RECURSIVE formatUint(_)
formatUint(n) ==
  IF n < 10 THEN <<DigitChars[n + 1]>>
  ELSE Append(formatUint(n \div 10), DigitChars[(n % 10) + 1])

\* fmt.Sprintf("%q", ...) of the number's text
SprintQuoted(n) ==
  <<"\"">> \o (IF n < 0 THEN <<"-">> \o formatUint(-n) ELSE formatUint(n))
           \o <<"\"">>

\* fmt.Sprint of an int64
Sprint(n) == IF n < 0 THEN <<"-">> \o formatUint(-n) ELSE formatUint(n)

\* value of a sequence of digits
RECURSIVE digitsValue(_)
digitsValue(s) ==
  IF s = <<>> THEN 0
  ELSE 10 * digitsValue(SubSeq(s, 1, Len(s) - 1)) + digitValue(s[Len(s)])

\* strconv.Atoi: an optional sign and at least one digit, nothing else
Atoi(s) ==
  LET rest == IF s # <<>> /\ s[1] \in {"-", "+"} THEN Tail(s) ELSE s
  IN IF rest = <<>> \/ \E k \in 1..Len(rest) : rest[k] \notin Digits
     THEN [n |-> 0, err |-> TRUE]
     ELSE [n |-> IF s[1] = "-" THEN -digitsValue(rest) ELSE digitsValue(rest),
           err |-> FALSE]

\* (*timestamp).MarshalJSON
MarshalJSON(t) == Sprint(Unix(t))

\* (*timestamp).UnmarshalJSON on raw bytes: *t is assigned on success only
UnmarshalBytes(t, b) ==
  LET r == Atoi(b)
  IN IF r.err THEN [v |-> t, err |-> TRUE]
     ELSE [v |-> timeUnix(r.n), err |-> FALSE]

\* bytes a caller may hand to UnmarshalJSON
CodecBytes == {"-", "+", "0", "1", "7", "\"", "."}
ByteStrings == UNION {[1..n -> CodecBytes] : n \in 0..MaxBytes}

\* timestamps a caller may hand to MarshalJSON
Nanos == {0, 1, 999999999}
Times == {Time(sec, nsec, loc) : sec \in -MaxSec..MaxSec, nsec \in Nanos,
                                 loc \in {"UTC", "Local"}}

\* either some bytes to decode and encode again, or a timestamp to encode
\* and decode again
CodecInit ==
  /\ Pools = <<>>
  /\ InitManager
  /\ added = <<>>
  /\ sb = NoScoreboard
  /\ \/ \E b \in ByteStrings :
          ts = [NoCodec EXCEPT !.pc = "bytes", !.dir = "bytes", !.b0 = b,
                               !.b = b]
     \/ \E t \in Times :
          ts = [NoCodec EXCEPT !.pc = "time", !.dir = "time", !.t0 = t,
                               !.t = t]

\* t.UnmarshalJSON(b)
CodecUnmarshal ==
  /\ ts.pc \in {"bytes", "encoded"}
  /\ LET r == UnmarshalBytes(ts.t, ts.b)
     IN ts' = [ts EXCEPT !.t = r.v,
                         !.pc = IF r.err THEN "failed"
                                ELSE IF ts.pc = "bytes" THEN "decoded"
                                ELSE "done"]
  /\ UNCHANGED <<Pools, managerVars, sb>>

\* b, _ = t.MarshalJSON()
CodecMarshal ==
  /\ ts.pc \in {"time", "decoded"}
  /\ ts' = [ts EXCEPT !.b = MarshalJSON(ts.t),
                      !.pc = IF ts.pc = "time" THEN "encoded" ELSE "done"]
  /\ UNCHANGED <<Pools, managerVars, sb>>

CodecNext == CodecUnmarshal \/ CodecMarshal

CodecSpec == CodecInit /\ [][CodecNext]_vars

\* ------------------------------------------------------------------ claims
\* the snapshot fields of a pool
Snapshot(p) ==
  [Name |-> p.Name, ProcessManager |-> p.ProcessManager,
   StartTime |-> p.StartTime, AcceptedConnections |-> p.AcceptedConnections,
   Processes |-> p.Processes]

Registered == 1..Len(Pools)

\* C1: when a scrape attempt of a pool has failed, every snapshot field of
\* the pool has the value it had before the attempt.
FailedScrapeKeepsSnapshot ==
  \A u \in Units :
    (unitPc[u] = "done" /\ outcome[u].err # "nil")
      => Snapshot(Pools[unitP[u]]) = Snapshot(pre[unitP[u]])

\* C2: when PoolManager.Update has returned, the goroutine of every
\* registered pool has finished, the WaitGroup is at zero and the value
\* returned is nil.
UpdateReturnsAfterAllUnits ==
  pmPc = "returned" =>
    /\ \A i \in Registered : unitPc[i] = "done"
    /\ wg = 0
    /\ ret = "nil"

UpdateReturnedWithFailures ==
  /\ pmPc = "returned"
  /\ Len(Pools) = MaxPools
  /\ \A i \in Registered : unitPc[i] = "done"
  /\ \E i \in Registered : outcome[i].err # "nil"
  /\ \E i \in Registered : outcome[i].err = "nil"

\* C3: the ScrapeFailures of every pool equals the number of its scrape
\* attempts that returned an error.
FailuresCountFailedAttempts ==
  \A i \in Registered : Pools[i].ScrapeFailures = failedAttempts[i]

FailedThenSucceeded ==
  \E i \in Registered :
    /\ unitPc[i] = "done"
    /\ outcome[i].err = "nil"
    /\ outcome[i].stage = "body"
    /\ pre[i].ScrapeFailures = 1
    /\ Pools[i].ScrapeFailures = 1

\* C4: when PoolManager.Update has returned, the ScrapeError of every pool
\* is the value its scrape attempt in this call returned: nil exactly for
\* the attempts that succeeded.
ScrapeErrorIsThisAttempts ==
  pmPc = "returned" =>
    \A i \in Registered : Pools[i].ScrapeError = outcome[i].err

EarlierErrorCleared ==
  /\ pmPc = "returned"
  /\ \E i \in Registered :
       /\ pre[i].ScrapeError # "nil"
       /\ outcome[i].err = "nil"
       /\ Pools[i].ScrapeError = "nil"
  /\ \E i \in Registered : Pools[i].ScrapeError # "nil"

\* C5: when PoolManager.Update has returned, every pool is what Pool.Update
\* alone makes of the pool as it was at the call and of what its own
\* attempt met, whatever the attempts of the other pools met.
PoolsDependOnOwnOutcome ==
  pmPc = "returned" =>
    \A i \in Registered :
      Pools[i] = PoolUpdate(pre[i], outcome[i].stage, outcome[i].content).p

SiblingSucceededBesideFailure ==
  /\ pmPc = "returned"
  /\ \E i, j \in Registered :
       /\ i # j
       /\ outcome[i].err = "dial"
       /\ outcome[j].err = "nil"
       /\ outcome[j].content = PFull
       /\ Pools[j].Name = "www"
       /\ Pools[j].ScrapeError = "nil"

\* the value the last member named key carries in a JSON object, or none
RECURSIVE Lookup(_, _, _)
Lookup(members, key, i) ==
  IF i < 1 THEN [found |-> FALSE, val |-> Null]
  ELSE IF members[i][1] = key THEN [found |-> TRUE, val |-> members[i][2]]
  ELSE Lookup(members, key, i - 1)

Carried(content, key, zero) ==
  LET l == Lookup(content.members, key, Len(content.members))
  IN IF l.found THEN l.val.v ELSE zero

CarriedTime(content) ==
  LET l == Lookup(content.members, "start time", Len(content.members))
  IN IF l.found THEN UnixTime(l.val.v) ELSE ZeroTime

\* C6: after a successful scrape of a JSON object, every pool-level field
\* holds the value the payload carries for its key, and its zero value when
\* the payload has no such key.
SuccessfulScrapeHoldsPayload ==
  \A u \in Units :
    (unitPc[u] = "done" /\ outcome[u].err = "nil"
       /\ outcome[u].content.kind = "object")
      => LET p == Pools[unitP[u]]
             c == outcome[u].content
         IN /\ p.Name = Carried(c, "pool", "")
            /\ p.ProcessManager = Carried(c, "process manager", "")
            /\ p.StartTime = CarriedTime(c)
            /\ p.AcceptedConnections = Carried(c, "accepted conn", 0)

\* C7: after a successful scrape whose payload has a process list, the
\* Processes of the pool equal that list decoded into an empty pool.
ProcessesFullyReplaced ==
  \A u \in Units :
    (unitPc[u] = "done" /\ outcome[u].err = "nil"
       /\ outcome[u].content.kind = "object"
       /\ Lookup(outcome[u].content.members, "processes",
                 Len(outcome[u].content.members)).found)
      => Pools[unitP[u]].Processes =
           Unmarshal(NewPool(Pools[unitP[u]].Address), outcome[u].content).v.Processes

\* C8: a running PoolManager.Update eventually returns.
UpdateEventuallyReturns ==
  (pmPc \in {"launch", "wait"}) ~> (pmPc = "returned")

\* C9: no two goroutines that are running have the same pool entry.
NoSharedEntry ==
  \A u, v \in Units :
    (u # v /\ unitPc[u] \in Running /\ unitPc[v] \in Running)
      => unitP[u] # unitP[v]

TwoUnitsSameAddress ==
  \E u, v \in Units :
    /\ u # v
    /\ unitPc[u] = "read"
    /\ unitPc[v] = "read"
    /\ Pools[unitP[u]].Address = Pools[unitP[v]].Address

\* C10: the connection of a pool with address tcp://h:9 is made over TCP to
\* h:9, and that of a pool with address unix:///s over a local socket to
\* the path /s.
DialsEndpointOfAddress ==
  \A u \in Units :
    dialed[u] # NoDial =>
      /\ Pools[unitP[u]].Address = TcpAddress
           => dialed[u] = [network |-> <<"t","c","p">>,
                           address |-> <<"h",":","9">>]
      /\ Pools[unitP[u]].Address = UnixAddress
           => dialed[u] = [network |-> <<"u","n","i","x">>,
                           address |-> <<"/","s">>]

\* C11: a scrape of a pool whose address does not parse, or whose scheme is
\* neither tcp nor unix, has failed at the address step: DialTimeout was
\* not called for it, and the failure is recorded on the pool.
AddressErrorBeforeDial ==
  \A u \in Units :
    LET a == Pools[unitP[u]].Address
    IN (unitPc[u] = "done"
          /\ (urlParse(a).err
                \/ urlParse(a).Scheme \notin {<<"t","c","p">>,
                                              <<"u","n","i","x">>}))
         => /\ outcome[u].stage = "parse"
            /\ dialed[u] = NoDial
            /\ Pools[unitP[u]].ScrapeError # "nil"
            /\ Pools[unitP[u]].ScrapeFailures = pre[unitP[u]].ScrapeFailures + 1

\* the number of processes of a list whose state is exactly s
CountState(procs, s) ==
  Cardinality({k \in 1..Len(procs) : procs[k].State = s})

\* C12: when CalculateProcessScoreboard has returned, active is the number
\* of processes of the pool whose state is exactly "Running", idle the
\* number whose state is exactly "Idle", total is active + idle, which is
\* at most the length of the process list and equal to it exactly when
\* every process is "Idle" or "Running".
ScoreboardCounts ==
  sb.pc = "done" =>
    LET procs == Pools[1].Processes
    IN /\ sb.active = CountState(procs, "Running")
       /\ sb.idle = CountState(procs, "Idle")
       /\ sb.total = sb.active + sb.idle
       /\ sb.active + sb.idle <= Len(procs)
       /\ (sb.active + sb.idle = Len(procs)) <=>
            (\A k \in 1..Len(procs) : procs[k].State \in {"Idle", "Running"})

\* the scoreboard of an Idle, a Running and a Zombie process is (1, 1, 2)
ScoreboardWithUnknownState ==
  /\ sb.pc = "done"
  /\ Len(Pools[1].Processes) = 3
  /\ Pools[1].Processes[1].State = "Idle"
  /\ Pools[1].Processes[2].State = "Running"
  /\ Pools[1].Processes[3].State = "Zombie"
  /\ sb.active = 1 /\ sb.idle = 1 /\ sb.total = 2

\* a decimal integer as JSON writes it: an optional minus and digits,
\* without a leading zero, and not -0
IsBareInteger(b) ==
  LET d == IF b # <<>> /\ b[1] = "-" THEN Tail(b) ELSE b
  IN /\ d # <<>>
     /\ \A k \in 1..Len(d) : d[k] \in Digits
     /\ Len(d) > 1 => d[1] # "0"
     /\ ~(Len(b) = 2 /\ b[1] = "-" /\ b[2] = "0")

\* t rounded down to the second
Truncated(t) == [t EXCEPT !.nsec = 0]

\* the same instant, as Time.Equal compares
Equal(t, u) == t.sec = u.sec /\ t.nsec = u.nsec

\* C13: bytes that are a bare decimal integer decode without error to a
\* whole second, and encoding that gives the same bytes again; a timestamp
\* encodes to a bare decimal integer, which decodes without error to the
\* instant of the timestamp rounded down to the second.
TimestampRoundTrip ==
  /\ (ts.dir = "bytes" /\ IsBareInteger(ts.b0)) =>
       /\ ts.pc # "failed"
       /\ ts.pc \in {"decoded", "done"} => ts.t.nsec = 0
       /\ ts.pc = "done" => ts.b = ts.b0
  /\ ts.dir = "time" =>
       /\ ts.pc # "failed"
       /\ ts.pc \in {"encoded", "done"} => IsBareInteger(ts.b)
       /\ ts.pc = "done" => Equal(ts.t, Truncated(ts.t0))

\* a timestamp one nanosecond before 11 seconds before the epoch has gone
\* through MarshalJSON and UnmarshalJSON
NegativeTimeRoundTripped ==
  /\ ts.dir = "time"
  /\ ts.pc = "done"
  /\ ts.t0 = Time(-12, 999999999, "UTC")
  /\ ts.b = <<"-", "1", "2">>
  /\ ts.t = Time(-12, 0, "Local")

ZeroSnapshot ==
  [Name |-> "", ProcessManager |-> "", StartTime |-> ZeroTime,
   AcceptedConnections |-> 0, Processes |-> <<>>]

\* a Pool value that has the address a and is otherwise as created
Fresh(p, a) ==
  /\ p.Address = a
  /\ p.ScrapeError = "nil"
  /\ p.ScrapeFailures = 0
  /\ Snapshot(p) = ZeroSnapshot

\* C14: a step that is a call of Add appends exactly one entry to pm.Pools,
\* with the address given, nil ScrapeError, ScrapeFailures 0 and a zero
\* snapshot, leaves the entries before it as they were, and returns a value
\* equal to the new entry.
AddAppendsOneFreshEntry ==
  [][added' # added =>
       /\ Len(added') = Len(added) + 1
       /\ Len(Pools') = Len(Pools) + 1
       /\ \A i \in 1..Len(Pools) : Pools'[i] = Pools[i]
       /\ Fresh(Pools'[Len(Pools')], added'[Len(added')].uri)
       /\ added'[Len(added')].p = Pools'[Len(Pools')]]_vars

MalformedAddressAddedLater ==
  /\ Len(added) = 2
  /\ added[2].uri = BadAddress
  /\ pmPc = "idle"
  /\ Pools[1].ScrapeFailures > 0
  /\ Fresh(Pools[2], BadAddress)

\* C15: a step that is not a call of Add leaves the number of pools and the
\* address at every position as they were.
OnlyAddChangesCollection ==
  [][added' = added =>
       /\ Len(Pools') = Len(Pools)
       /\ \A i \in 1..Len(Pools) : Pools'[i].Address = Pools[i].Address]_vars

UpdateChangedPoolsInPlace ==
  /\ pmPc = "returned"
  /\ Len(Pools) = MaxPools
  /\ Len(pre) = Len(Pools)
  /\ \A i \in Registered : Pools[i].Address = pre[i].Address
  /\ \E i \in Registered : Pools[i].Name # pre[i].Name
  /\ \E i \in Registered : Pools[i].ScrapeFailures # pre[i].ScrapeFailures

\* C16: within a call of PoolManager.Update no entry has more than one
\* call of Pool.Update, and when the call has returned every registered
\* entry has had exactly one.
OneAttemptPerPool ==
  /\ \A i \in Units : attempts[i] <= 1
  /\ pmPc = "returned" => \A i \in Registered : attempts[i] = 1

FailedAttemptNotRetried ==
  /\ pmPc = "returned"
  /\ Len(Pools) = MaxPools
  /\ \A i \in Registered : attempts[i] = 1
  /\ \E i \in Registered : outcome[i].err = "get"

\* C17: a goroutine whose Pool.Update has returned holds no open
\* connection, and none is open when PoolManager.Update has returned.
ConnectionsClosedOnReturn ==
  /\ \A u \in Units : unitPc[u] = "done" => conn[u] # "open"
  /\ pmPc = "returned" => \A u \in Units : conn[u] # "open"

ClosedAfterFailureAndSuccess ==
  /\ pmPc = "returned"
  /\ \E u, v \in Units :
       /\ conn[u] = "closed"
       /\ outcome[u].err \in {"read", "type", "abort", "syntax"}
       /\ conn[v] = "closed"
       /\ outcome[v].err = "nil"

\* the states, in list order, of the first n processes that are neither
\* "Idle" nor "Running"
RECURSIVE UnknownStates(_, _)
UnknownStates(procs, n) ==
  IF n = 0 THEN <<>>
  ELSE IF procs[n].State \in {"Idle", "Running"}
       THEN UnknownStates(procs, n - 1)
       ELSE Append(UnknownStates(procs, n - 1), procs[n].State)

\* C18: a call of CalculateProcessScoreboard has logged one diagnostic for
\* each process it has passed whose state is neither "Idle" nor "Running"
\* and none for the others, the pool is still what it was when the call was
\* made, and every call on it returned the same triple.
ScoreboardOnlyLogs ==
  /\ sb.pc = "loop" =>
       sb.log = UnknownStates(Pools[1].Processes, sb.idx - 1)
  /\ sb.pc = "done" =>
       sb.log = UnknownStates(Pools[1].Processes, Len(Pools[1].Processes))
  /\ sb.pc # "none" => sb.p = Pools[1]
  /\ \A i, j \in 1..Len(sb.results) : sb.results[i] = sb.results[j]

\* the second call on a pool with two Zombie processes and an Idle one has
\* returned: two diagnostics in this call, and two results
SecondCallLoggedTwoZombies ==
  /\ sb.pc = "done"
  /\ sb.calls = 2
  /\ Len(sb.results) = 2
  /\ Len(Pools[1].Processes) = 3
  /\ Pools[1].Processes[1].State = "Zombie"
  /\ Pools[1].Processes[2].State = "Idle"
  /\ Pools[1].Processes[3].State = "Zombie"
  /\ sb.log = <<"Zombie", "Zombie">>
  /\ sb.results[2] = [active |-> 0, idle |-> 1, total |-> 1]

\* C19: when a scrape has decoded a body, the Address of the pool is what
\* it was; if the decode succeeded ScrapeFailures is what it was and
\* ScrapeError is nil, and if it failed they are the scraper's own count
\* and error.
PayloadCannotTouchMetadata ==
  \A u \in Units :
    (unitPc[u] = "done" /\ outcome[u].stage = "body")
      => LET p == Pools[unitP[u]]
             q == pre[unitP[u]]
         IN /\ p.Address = q.Address
            /\ outcome[u].err = "nil"
                 => p.ScrapeFailures = q.ScrapeFailures /\ p.ScrapeError = "nil"
            /\ outcome[u].err # "nil"
                 => /\ p.ScrapeFailures = q.ScrapeFailures + 1
                    /\ p.ScrapeError = outcome[u].err

MetadataKeysInPayload ==
  \E u \in Units :
    /\ unitPc[u] = "done"
    /\ outcome[u].content = PFull
    /\ outcome[u].err = "nil"
    /\ Lookup(PFull.members, "ScrapeFailures", Len(PFull.members)).found
    /\ Lookup(PFull.members, "Address", Len(PFull.members)).found
    /\ pre[unitP[u]].ScrapeFailures = 1
    /\ Pools[unitP[u]].ScrapeFailures = 1
    /\ Pools[unitP[u]].Address = TcpAddress

\* a caller that was handed a pointer into pm.Pools
HandleAliased(k) == Pools[k]

\* the Pool value the k-th call of Add returned, as its caller holds it
HandleOf(k) == added[k].p

\* C20: the value every call of Add returned still has the address it was
\* created with, nil ScrapeError, ScrapeFailures 0 and a zero snapshot.
ReturnedPoolIsDetached ==
  \A k \in 1..Len(added) : Fresh(HandleOf(k), added[k].uri)

HandleStaysFreshAfterScrapes ==
  /\ Len(added) = 2
  /\ pmPc = "returned"
  /\ Pools[1].Name = "www"
  /\ Pools[2].ScrapeFailures > 0
  /\ Fresh(HandleOf(1), added[1].uri)
  /\ Fresh(HandleOf(2), added[2].uri)

====
